---------------------------- MODULE Spec2Model ----------------------------
(***************************************************************************)
(* A model of cargo-5730 (src/src/lib.rs): the staged build of a build     *)
(* crate.  run_build_crate computes a staging directory under the system   *)
(* temporary directory, mirrors the build crate into it (cp_r), rewrites   *)
(* the relative dependency paths of the staged Cargo.toml                  *)
(* (qualify_cargo_toml_paths), compiles it with a cleared environment      *)
(* (compile_build_crate), runs the built executable in the original        *)
(* source directory (run_build_script) and removes the staging directory   *)
(* when the BuildDir handle is dropped.                                    *)
(*                                                                         *)
(* Three specifications share the variables:                               *)
(*   SpecText    qualify_cargo_toml_paths_in_text applied to bounded texts *)
(*   SpecMirror  cp_r applied to bounded source and destination trees      *)
(*   Spec        one run of run_build_crate, step by step                  *)
(*                                                                         *)
(* Text.  A Rust string is modelled as a sequence of symbols.  A symbol is *)
(* one character, or a run of plain printable ASCII characters written as  *)
(* one TLA+ string ("lib", "build-script") where the concrete text it      *)
(* stands for cannot take part in a match of the four patterns.            *)
(***************************************************************************)
EXTENDS Integers, Sequences, FiniteSets, TLC

VARIABLES
    fs,         \* the filesystem: absolute path (sequence of names) -> node
    fs0,        \* the filesystem before the first step (history variable)
    clock,      \* SystemTime::now(), in seconds since the Unix epoch
    env,        \* the environment of the process of each run
    src,        \* the build_crate_src argument of each run
    pc,         \* the position of each run inside run_build_crate
    build_dir,  \* the BuildDir handle of each run
    locals,     \* the locals of run_build_crate (lines 157-173)
    outcome,    \* how each run is going: running, panicking, or how it ended
    log,        \* what each run did to the filesystem and to processes, in order
    q_text,     \* rewriter harness: the manifest text
    q_base,     \* rewriter harness: the base directory
    q_out,      \* rewriter harness: the results of the applications so far
    m_state     \* mirror harness: idle, ready, returned or panicked

vars == <<fs, fs0, clock, env, src, pc, build_dir, locals, outcome, log,
          q_text, q_base, q_out, m_state>>

----------------------------------------------------------------------------
(* Bounds of the model *)

\* number of chunks a manifest text of the rewriter harness is built from
MaxChunks == 3

----------------------------------------------------------------------------
(* Strings *)

RECURSIVE Flatten(_)
\* The concatenation of a sequence of strings.
Flatten(ss) ==
    IF ss = <<>> THEN <<>> ELSE Head(ss) \o Flatten(Tail(ss))

\* A byte that is not valid UTF-8 (an OsStr may hold it, a str may not).
NonUtf8 == "<0xFF>"

\* A character outside printable ASCII, and its code point in hexadecimal.
NonAscii == "e-acute"

\* Path::to_str (line 76): None when the path is not valid Unicode.
ToStr(p) ==
    IF \E i \in 1..Len(p) : p[i] = NonUtf8
    THEN [some |-> FALSE, val |-> <<>>]
    ELSE [some |-> TRUE, val |-> p]

\* char::escape_default, as str::escape_default applies it to each character
\* (line 76): backslash escapes for tab, CR, LF, both quotes and the
\* backslash, the character itself for printable ASCII, \u{hex} otherwise.
EscapeChar(c) ==
    CASE c = "\t" -> <<"\\", "t">>
      [] c = "\"" -> <<"\\", "\"">>
      [] c = "'" -> <<"\\", "'">>
      [] c = "\\" -> <<"\\", "\\">>
      [] c = NonAscii -> <<"\\", "u", "{", "e9", "}">>
      [] OTHER -> <<c>>

RECURSIVE EscapeDefault(_)
\* str::escape_default (line 76).
EscapeDefault(s) ==
    IF s = <<>> THEN <<>> ELSE EscapeChar(Head(s)) \o EscapeDefault(Tail(s))

RECURSIVE Replace(_, _, _)
\* str::replace (lines 78-81): every non-overlapping match of `from`, found
\* scanning left to right, is replaced by `to`.
Replace(s, from, to) ==
    IF Len(s) < Len(from) THEN s
    ELSE IF SubSeq(s, 1, Len(from)) = from
         THEN to \o Replace(SubSeq(s, Len(from) + 1, Len(s)), from, to)
         ELSE <<Head(s)>> \o Replace(Tail(s), from, to)

----------------------------------------------------------------------------
(* qualify_cargo_toml_paths_in_text *)

PathEqDq == <<"p", "a", "t", "h", " ", "=", " ", "\"">>
PathEqDqTight == <<"p", "a", "t", "h", "=", "\"">>
PathEqSq == <<"p", "a", "t", "h", " ", "=", " ", "'">>
PathEqSqTight == <<"p", "a", "t", "h", "=", "'">>

\* The four spellings, in the order the code replaces them (lines 78-81).
Spellings == <<PathEqDq, PathEqDqTight, PathEqSq, PathEqSqTight>>

\* One of the four spellings ends at position i of t (its opening quote is
\* t[i]).
EndsSpellingAt(t, i) ==
    \E k \in 1..Len(Spellings) :
        /\ Len(Spellings[k]) <= i
        /\ SubSeq(t, i - Len(Spellings[k]) + 1, i) = Spellings[k]

\* A variant of Qualify that leaves alone a text in which some opening quote
\* is already followed by the base directory.
SkipsQualifiedText(cargo_toml_content, base_dir) ==
    LET b == ToStr(base_dir)
        e == EscapeDefault(b.val) \o <<"/">>
        t1 == Replace(cargo_toml_content, PathEqDq, PathEqDq \o e)
        t2 == Replace(t1, PathEqDqTight, PathEqDqTight \o e)
        t3 == Replace(t2, PathEqSq, PathEqSq \o e)
        t4 == Replace(t3, PathEqSqTight, PathEqSqTight \o e)
    IN IF ~b.some THEN [ok |-> FALSE, val |-> <<>>]
       ELSE IF \E i \in 1..Len(cargo_toml_content) :
                  /\ EndsSpellingAt(cargo_toml_content, i)
                  /\ i + Len(e) <= Len(cargo_toml_content)
                  /\ SubSeq(cargo_toml_content, i + 1, i + Len(e)) = e
            THEN [ok |-> TRUE, val |-> cargo_toml_content]
            ELSE [ok |-> TRUE, val |-> t4]

\* A variant of Qualify that inserts the base directory as it is, without
\* escape_default.
InsertsUnescaped(cargo_toml_content, base_dir) ==
    LET b == ToStr(base_dir) IN
    IF ~b.some THEN [ok |-> FALSE, val |-> <<>>]
    ELSE LET e == b.val \o <<"/">>
             t1 == Replace(cargo_toml_content, PathEqDq, PathEqDq \o e)
             t2 == Replace(t1, PathEqDqTight, PathEqDqTight \o e)
             t3 == Replace(t2, PathEqSq, PathEqSq \o e)
             t4 == Replace(t3, PathEqSqTight, PathEqSqTight \o e)
         IN [ok |-> TRUE, val |-> t4]

\* A variant of Qualify without the pass for the fourth spelling.
MissingLastSpelling(cargo_toml_content, base_dir) ==
    LET b == ToStr(base_dir) IN
    IF ~b.some THEN [ok |-> FALSE, val |-> <<>>]
    ELSE LET e == EscapeDefault(b.val) \o <<"/">>
             t1 == Replace(cargo_toml_content, PathEqDq, PathEqDq \o e)
             t2 == Replace(t1, PathEqDqTight, PathEqDqTight \o e)
             t3 == Replace(t2, PathEqSq, PathEqSq \o e)
         IN [ok |-> TRUE, val |-> t3]

\* qualify_cargo_toml_paths_in_text (lines 68-83).  The result is the
\* returned String, or ok = FALSE when `expect` panics on a base directory
\* that has no textual form.
Qualify(cargo_toml_content, base_dir) ==
    LET b == ToStr(base_dir) IN
    IF ~b.some THEN [ok |-> FALSE, val |-> <<>>]
    ELSE LET e == EscapeDefault(b.val) \o <<"/">>
             t1 == Replace(cargo_toml_content, PathEqDq, PathEqDq \o e)
             t2 == Replace(t1, PathEqDqTight, PathEqDqTight \o e)
             t3 == Replace(t2, PathEqSq, PathEqSq \o e)
             t4 == Replace(t3, PathEqSqTight, PathEqSqTight \o e)
         IN [ok |-> TRUE, val |-> t4]

----------------------------------------------------------------------------
(* The rewriter harness: inputs of qualify_cargo_toml_paths_in_text *)

\* The pieces the manifest texts are built from: the four spellings whole,
\* and the fragments that make near misses and matches across pieces.
TextChunks ==
    { PathEqDq, PathEqDqTight, PathEqSq, PathEqSqTight,
      <<"p", "a", "t", "h">>, <<"=">>, <<"\"">>, <<"'">>, <<"..", "/", "lib">> }

Texts ==
    { Flatten(cs) : cs \in UNION { [1..n -> TextChunks] : n \in 0..MaxChunks } }

\* Base directories: plain ones, ones whose text holds a backslash, a quote
\* or a whole spelling, a non-ASCII one, the empty one, and one that is not
\* valid Unicode.
BaseDirs ==
    { <<"/", "basedir">>,
      <<>>,
      <<"C:", "\\", "proj">>,
      <<"/", "it", "'", "s">>,
      <<"/", "a">> \o PathEqDqTight,
      <<"/", "p", "a", "t", "h", "=">>,
      <<"/", NonAscii>>,
      <<"/", NonUtf8>> }

QIdle == q_text = <<>> /\ q_base = <<>> /\ q_out = <<>>

\* The first application, to the manifest text.
Apply ==
    /\ Len(q_out) = 0
    /\ q_out' = <<Qualify(q_text, q_base)>>
    /\ UNCHANGED <<fs, fs0, clock, env, src, pc, build_dir, locals, outcome,
                   log, q_text, q_base, m_state>>

\* A second application with the same base directory, to the result of the
\* first.
ApplyAgain ==
    /\ Len(q_out) = 1
    /\ q_out[1].ok
    /\ q_out' = Append(q_out, Qualify(q_out[1].val, q_base))
    /\ UNCHANGED <<fs, fs0, clock, env, src, pc, build_dir, locals, outcome,
                   log, q_text, q_base, m_state>>

----------------------------------------------------------------------------
(* Paths.  A PathBuf is the string it wraps; "/" is the separator. *)

Sep == "/"

\* The working directory of the process, as absolute names: cargo runs a
\* build script in the root of the package that owns it.
Cwd == <<"proj">>

RECURSIVE JoinSymbols(_)
\* The name a run of symbols spells.
JoinSymbols(s) ==
    IF s = <<>> THEN "" ELSE Head(s) \o JoinSymbols(Tail(s))

RECURSIVE SplitAtSep(_, _)
\* The runs of symbols between separators, empty runs dropped.
SplitAtSep(p, cur) ==
    IF p = <<>> THEN (IF cur = <<>> THEN <<>> ELSE <<cur>>)
    ELSE IF Head(p) = Sep
         THEN (IF cur = <<>> THEN <<>> ELSE <<cur>>) \o SplitAtSep(Tail(p), <<>>)
         ELSE SplitAtSep(Tail(p), Append(cur, Head(p)))

\* Path::components: whether the path has a root, and its names in order
\* ("." is dropped, ".." is kept).
Components(p) ==
    LET runs == SplitAtSep(p, <<>>)
        kept == SelectSeq(runs, LAMBDA r : r # <<".">>)
    IN [abs |-> p # <<>> /\ Head(p) = Sep,
        names |-> [i \in 1..Len(kept) |-> JoinSymbols(kept[i])]]

\* Path::starts_with (line 25): `base` is a prefix of `p`, whole components.
StartsWith(p, base) ==
    LET a == Components(p)
        b == Components(base)
    IN /\ a.abs = b.abs
       /\ Len(b.names) <= Len(a.names)
       /\ SubSeq(a.names, 1, Len(b.names)) = b.names

\* PathBuf::push / Path::join with a relative `name` (lines 14, 129-131,
\* 170, 188): a separator is added unless the path is empty or ends in one.
Push(p, name) ==
    IF p = <<>> \/ p[Len(p)] = Sep THEN p \o name ELSE p \o <<Sep>> \o name

\* Path::file_name followed by OsStr::to_str (lines 157-159): the symbols of
\* the final component, or none when the path ends in "..", has no
\* component, or the component is not valid Unicode.
FileName(p) ==
    LET runs == SelectSeq(SplitAtSep(p, <<>>), LAMBDA r : r # <<".">>)
        last == IF runs = <<>> THEN <<>> ELSE runs[Len(runs)]
    IN IF last = <<>> \/ last = <<"..">> \/ ~ToStr(last).some
       THEN [some |-> FALSE, val |-> <<>>]
       ELSE [some |-> TRUE, val |-> last]

RECURSIVE Normalize(_, _)
\* Name resolution as the kernel does it: ".." steps to the parent.
Normalize(names, acc) ==
    IF names = <<>> THEN acc
    ELSE IF Head(names) = ".."
         THEN Normalize(Tail(names),
                        IF acc = <<>> THEN acc ELSE SubSeq(acc, 1, Len(acc) - 1))
         ELSE Normalize(Tail(names), Append(acc, Head(names)))

\* The absolute names a path resolves to in the process (relative paths are
\* relative to the working directory).
Resolve(p) ==
    LET c == Components(p)
    IN Normalize(IF c.abs THEN c.names ELSE Cwd \o c.names, <<>>)

----------------------------------------------------------------------------
(* The filesystem: a function from absolute names to nodes.  Only regular  *)
(* files and directories are modelled (no symbolic links).                 *)

DirNode == [kind |-> "dir", data |-> <<>>, readable |-> TRUE]
FileNode(d) == [kind |-> "file", data |-> d, readable |-> TRUE]
UnreadableFile(d) == [kind |-> "file", data |-> d, readable |-> FALSE]

IsPrefix(p, q) == Len(p) <= Len(q) /\ SubSeq(q, 1, Len(p)) = p
Parent(p) == SubSeq(p, 1, Len(p) - 1)

Exists(f, p) == p \in DOMAIN f
IsDir(f, p) == p \in DOMAIN f /\ f[p].kind = "dir"
IsFile(f, p) == p \in DOMAIN f /\ f[p].kind = "file"

\* The names of the entries of directory p (read_dir, line 36).
ChildNames(f, p) ==
    { q[Len(q)] : q \in { x \in DOMAIN f : Len(x) = Len(p) + 1 /\ IsPrefix(p, x) } }

\* p and everything below it removed.
RemoveTree(f, p) ==
    [q \in { x \in DOMAIN f : ~IsPrefix(p, x) } |-> f[q]]

\* fs::remove_dir_all (lines 28, 51): fails unless p is a directory.
RemoveDirAll(f, p) ==
    IF IsDir(f, p) /\ p # <<>>
    THEN [ok |-> TRUE, fs |-> RemoveTree(f, p)]
    ELSE [ok |-> FALSE, fs |-> f]

\* fs::remove_file (line 53).
RemoveFile(f, p) ==
    IF IsFile(f, p)
    THEN [ok |-> TRUE, fs |-> RemoveTree(f, p)]
    ELSE [ok |-> FALSE, fs |-> f]

\* fs::create_dir_all (lines 45, 183): creates p and its missing ancestors;
\* fails when p or an ancestor is a file.
CreateDirAll(f, p) ==
    IF \E i \in 0..Len(p) : IsFile(f, SubSeq(p, 1, i))
    THEN [ok |-> FALSE, fs |-> f]
    ELSE [ok |-> TRUE,
          fs |-> [q \in DOMAIN f \cup { SubSeq(p, 1, i) : i \in 0..Len(p) } |->
                    IF q \in DOMAIN f THEN f[q] ELSE DirNode]]

\* fs::File::create (line 57) and fs::write (line 92): the file is created
\* or truncated, then given `d`; fails when p is a directory or its parent
\* is not one.
WriteFile(f, p, d) ==
    IF p = <<>> \/ IsDir(f, p) \/ ~IsDir(f, Parent(p))
    THEN [ok |-> FALSE, fs |-> f]
    ELSE [ok |-> TRUE,
          fs |-> [q \in DOMAIN f \cup {p} |-> IF q = p THEN FileNode(d) ELSE f[q]]]

\* fs::File::open and reading to the end (lines 61-62, 86).
ReadFile(f, p) ==
    IF IsFile(f, p) /\ f[p].readable
    THEN [ok |-> TRUE, data |-> f[p].data]
    ELSE [ok |-> FALSE, data |-> <<>>]

----------------------------------------------------------------------------
(* cp_r *)

RECURSIVE CpR(_, _, _)
RECURSIVE CpEntries(_, _, _, _)

\* A variant of CpEntry that leaves a file already at the destination as it
\* is (copy only what is missing).
KeepsExistingFile(f, entry_path, out_entry_path) ==
    IF IsDir(f, entry_path)
    THEN LET made == CreateDirAll(f, out_entry_path)
         IN IF made.ok THEN CpR(made.fs, entry_path, out_entry_path)
            ELSE [ok |-> FALSE, fs |-> f]
    ELSE IF IsFile(f, out_entry_path) THEN [ok |-> TRUE, fs |-> f]
    ELSE LET cleared == IF Exists(f, out_entry_path)
                        THEN RemoveDirAll(f, out_entry_path)
                        ELSE [ok |-> TRUE, fs |-> f]
             created == WriteFile(cleared.fs, out_entry_path, <<>>)
             read == ReadFile(f, entry_path)
         IN IF ~cleared.ok \/ ~created.ok THEN [ok |-> FALSE, fs |-> cleared.fs]
            ELSE IF ~read.ok THEN [ok |-> FALSE, fs |-> created.fs]
            ELSE [ok |-> TRUE,
                  fs |-> WriteFile(created.fs, out_entry_path, read.data).fs]

\* A variant of CpEntry that creates a directory without entering it.
CreatesDirsOnly(f, entry_path, out_entry_path) ==
    IF IsDir(f, entry_path)
    THEN CreateDirAll(f, out_entry_path)
    ELSE LET cleared == IF ~Exists(f, out_entry_path) THEN [ok |-> TRUE, fs |-> f]
                        ELSE IF IsDir(f, out_entry_path)
                             THEN RemoveDirAll(f, out_entry_path)
                             ELSE RemoveFile(f, out_entry_path)
             created == WriteFile(cleared.fs, out_entry_path, <<>>)
             read == ReadFile(f, entry_path)
         IN IF ~cleared.ok \/ ~created.ok THEN [ok |-> FALSE, fs |-> cleared.fs]
            ELSE IF ~read.ok THEN [ok |-> FALSE, fs |-> created.fs]
            ELSE [ok |-> TRUE,
                  fs |-> WriteFile(created.fs, out_entry_path, read.data).fs]

\* The body of the loop of cp_r for one entry (lines 37-63).  A directory
\* is created at the destination (with its missing ancestors) and entered.
\* Any other entry is copied: what the destination holds at its path is
\* removed first (a directory recursively), the file is created empty, the
\* source is opened and its bytes are copied.  ok = FALSE is a panic of one
\* of the `expect`s; the filesystem is then as the failed step left it.
CpEntry(f, entry_path, out_entry_path) ==
    IF IsDir(f, entry_path)
    THEN LET made == CreateDirAll(f, out_entry_path)
         IN IF made.ok THEN CpR(made.fs, entry_path, out_entry_path)
            ELSE [ok |-> FALSE, fs |-> f]
    ELSE LET cleared == IF ~Exists(f, out_entry_path) THEN [ok |-> TRUE, fs |-> f]
                        ELSE IF IsDir(f, out_entry_path)
                             THEN RemoveDirAll(f, out_entry_path)
                             ELSE RemoveFile(f, out_entry_path)
             created == WriteFile(cleared.fs, out_entry_path, <<>>)
             read == ReadFile(f, entry_path)
         IN IF ~cleared.ok \/ ~created.ok THEN [ok |-> FALSE, fs |-> cleared.fs]
            ELSE IF ~read.ok THEN [ok |-> FALSE, fs |-> created.fs]
            ELSE [ok |-> TRUE,
                  fs |-> WriteFile(created.fs, out_entry_path, read.data).fs]

\* The loop of cp_r over the entries still to visit (line 36).  read_dir
\* yields the entries in no particular order; entries of one directory have
\* different names, so the order decides only where a failing copy stops.
CpEntries(f, in_dir, out_dir, names) ==
    IF names = {} THEN [ok |-> TRUE, fs |-> f]
    ELSE LET n == CHOOSE x \in names : TRUE
             r == CpEntry(f, Append(in_dir, n), Append(out_dir, n))
         IN IF r.ok THEN CpEntries(r.fs, in_dir, out_dir, names \ {n}) ELSE r

\* cp_r (lines 35-65), on resolved paths.  read_dir fails unless in_dir is
\* a directory.
CpR(f, in_dir, out_dir) ==
    IF IsDir(f, in_dir)
    THEN CpEntries(f, in_dir, out_dir, ChildNames(f, in_dir))
    ELSE [ok |-> FALSE, fs |-> f]

----------------------------------------------------------------------------
(* The mirror harness: inputs of cp_r *)

\* most entries below the source directory of the mirror harness
MaxSrcNodes == 3
\* most entries below the destination directory of the mirror harness
MaxDstNodes == 2

SrcFiles == { FileNode(<<"x">>), FileNode(<<"y">>), UnreadableFile(<<"x">>) }
DstFiles == { FileNode(<<"x">>), FileNode(<<"z">>) }

\* A tree placed under `name`.
Under(name, t) ==
    [p \in { <<name>> \o q : q \in DOMAIN t } |-> t[Tail(p)]]

RECURSIVE Forests(_, _)
\* The directory contents with at most n entries, files drawn from `files`:
\* each a function from relative paths to nodes.
Forests(n, files) ==
    LET trees(k) ==
            IF k = 0 THEN {}
            ELSE { (<<>> :> x) : x \in files }
                 \cup { [p \in {<<>>} \cup DOMAIN g |->
                            IF p = <<>> THEN DirNode ELSE g[p]]
                        : g \in Forests(k - 1, files) }
        slot(k) == {<<>>} \cup trees(k)
    IN { Under("a", ta) @@ Under("b", tb) :
           <<ta, tb>> \in { c \in slot(n) \X slot(n) :
               Cardinality(DOMAIN c[1]) + Cardinality(DOMAIN c[2]) <= n } }

MirrorIn == <<"in">>
MirrorOut == <<"out">>

\* A filesystem holding the source contents under /in and the destination
\* contents under /out.
MirrorFs(s, d) ==
    (<<>> :> DirNode) @@ (MirrorIn :> DirNode) @@ (MirrorOut :> DirNode)
    @@ [p \in { MirrorIn \o q : q \in DOMAIN s } |-> s[SubSeq(p, 2, Len(p))]]
    @@ [p \in { MirrorOut \o q : q \in DOMAIN d } |-> d[SubSeq(p, 2, Len(p))]]

\* cp_r(/in, /out) as a whole: it returns, or one of its `expect`s panics.
Mirror ==
    /\ m_state = "ready"
    /\ LET r == CpR(fs, MirrorIn, MirrorOut)
       IN /\ fs' = r.fs
          /\ m_state' = IF r.ok THEN "returned" ELSE "panicked"
    /\ UNCHANGED <<fs0, clock, env, src, pc, build_dir, locals, outcome, log,
                   q_text, q_base, q_out>>

----------------------------------------------------------------------------
(* The environment of a process *)

Runs == {"r1", "r2"}

\* most variables in which an environment differs from the usual one
MaxEnvChanges == 1

\* The variables run_build_crate or compile_build_crate read, TMPDIR, which
\* env::temp_dir reads, and one variable that none of them names.
EnvVars ==
    { "CARGO", "TEMP", "PATH", "SSH_AUTH_SOCK", "CARGO_MANIFEST_DIR",
      "RUSTUP_HOME", "RUSTUP_TOOLCHAIN", "SYSTEMROOT", "TMPDIR", "RUSTFLAGS" }

\* A variable is unset, set to valid Unicode ("str"), or set to bytes that
\* are not ("bytes").
Unset == [st |-> "unset", val |-> <<>>]
StrVal(s) == [st |-> "str", val |-> s]
BytesVal == [st |-> "bytes", val |-> <<Sep, NonUtf8>>]

\* The environment cargo gives a build script on a Unix host.
UsualEnv ==
    [v \in EnvVars |->
        CASE v = "CARGO" -> StrVal(<<Sep, "bin", Sep, "cargo">>)
          [] v = "TEMP" -> StrVal(<<Sep, "scratch">>)
          [] v = "PATH" -> StrVal(<<Sep, "bin">>)
          [] v = "SSH_AUTH_SOCK" -> StrVal(<<Sep, "agent.sock">>)
          [] v = "CARGO_MANIFEST_DIR" -> StrVal(<<Sep, "proj">>)
          [] v = "RUSTUP_HOME" -> StrVal(<<Sep, "rustup">>)
          [] v = "RUSTUP_TOOLCHAIN" -> StrVal(<<"stable">>)
          [] v = "SYSTEMROOT" -> Unset
          [] v = "TMPDIR" -> Unset
          [] v = "RUSTFLAGS" -> StrVal(<<"-g">>)]

\* Another value of a variable.
OtherVal(v) ==
    CASE v = "TMPDIR" -> StrVal(<<Sep, "var">>)
      [] v = "CARGO_MANIFEST_DIR" -> StrVal(<<"C:", "\\", "proj">>)
      [] v = "SYSTEMROOT" -> StrVal(<<"C:", "\\", "Windows">>)
      [] OTHER -> StrVal(<<Sep, "other">>)

EnvValues(v) == { Unset, BytesVal, OtherVal(v), UsualEnv[v] }

\* The environments that differ from the usual one in at most
\* MaxEnvChanges variables.
Envs ==
    { [v \in EnvVars |-> IF v \in DOMAIN ch THEN ch[v] ELSE UsualEnv[v]] :
        ch \in UNION { { f \in [S -> UNION { EnvValues(v) : v \in EnvVars }] :
                            \A v \in S : f[v] \in EnvValues(v) } :
                        S \in { T \in SUBSET EnvVars :
                                  Cardinality(T) <= MaxEnvChanges } } }

\* env::var (lines 100, 165-173): Err when the variable is unset and when
\* its value is not valid Unicode.
EnvVar(e, k) ==
    IF e[k].st = "str" THEN [ok |-> TRUE, val |-> e[k].val]
    ELSE [ok |-> FALSE, val |-> <<>>]

\* Result::unwrap_or_default (lines 100, 166, 168, 172, 173).
UnwrapOrDefault(r) == IF r.ok THEN r.val ELSE <<>>

\* env::temp_dir (lines 13, 25) on Unix: TMPDIR when it is set, else /tmp.
TempDir(e) ==
    IF e["TMPDIR"].st = "unset" THEN <<Sep, "tmp">> ELSE e["TMPDIR"].val

\* What a child process inherits when its Command changes nothing.
InheritedEnv(e) ==
    [v \in { k \in EnvVars : e[k].st # "unset" } |-> e[v].val]

----------------------------------------------------------------------------
(* BuildDir and the commands *)

UsesTempVariable(e, now) ==
    [path |-> Push(UnwrapOrDefault(EnvVar(e, "TEMP")),
                   <<"build-script-" \o ToString(now)>>)]

\* A variant of BuildDirNew that names the directory after a coarser time
\* (every two seconds).
UsesCoarserClock(e, now) ==
    [path |-> Push(TempDir(e), <<"build-script-" \o ToString(now \div 2)>>)]

\* BuildDir::new (lines 10-20): <temp_dir>/build-script-<seconds>.  Nothing
\* is created on the filesystem.
BuildDirNew(e, now) ==
    [path |-> Push(TempDir(e), <<"build-script-" \o ToString(now)>>)]

\* No BuildDir yet (before line 155).
NoBuildDir == [path |-> <<>>]

\* The locals of run_build_crate before they are assigned.
NoLocals ==
    [executable_name |-> <<>>, cargo |-> <<>>, temp |-> <<>>, path |-> <<>>,
     ssh_auth_sock |-> <<>>, base_dir |-> <<>>, rustup_home |-> <<>>,
     rustup_toolchain |-> <<>>]

\* A variant of RequiredVars in which the read of TEMP is an `expect` too.
RequiresTemp == {"CARGO", "PATH", "CARGO_MANIFEST_DIR", "TEMP"}

\* The variables whose absence is fatal (the `expect`s of lines 165, 167
\* and 169).
RequiredVars == {"CARGO", "PATH", "CARGO_MANIFEST_DIR"}

\* Lines 165-173: the reads of the environment, given the executable name
\* already computed.
ReadLocals(e, executable_name) ==
    [executable_name |-> executable_name,
     cargo |-> EnvVar(e, "CARGO").val,
     temp |-> UnwrapOrDefault(EnvVar(e, "TEMP")),
     path |-> EnvVar(e, "PATH").val,
     ssh_auth_sock |-> UnwrapOrDefault(EnvVar(e, "SSH_AUTH_SOCK")),
     base_dir |-> Push(EnvVar(e, "CARGO_MANIFEST_DIR").val, <<"build-script">>),
     rustup_home |-> UnwrapOrDefault(EnvVar(e, "RUSTUP_HOME")),
     rustup_toolchain |-> UnwrapOrDefault(EnvVar(e, "RUSTUP_TOOLCHAIN"))]

\* A variant of CompileCommand without env_clear: the child inherits the
\* environment and the six variables are set on top of it.
CompileCommandInherits(dir, l, e) ==
    [prog |-> l.cargo,
     args |-> <<"build", "-vv">>,
     penv |-> ("TEMP" :> l.temp)
              @@ ("SYSTEMROOT" :> UnwrapOrDefault(EnvVar(e, "SYSTEMROOT")))
              @@ ("PATH" :> l.path)
              @@ ("SSH_AUTH_SOCK" :> l.ssh_auth_sock)
              @@ ("RUSTUP_HOME" :> l.rustup_home)
              @@ ("RUSTUP_TOOLCHAIN" :> l.rustup_toolchain)
              @@ InheritedEnv(e),
     cwd |-> dir.path]

\* A variant of CompileCommand with two of its string arguments taken in
\* the other order: RUSTUP_HOME is given the toolchain and RUSTUP_TOOLCHAIN
\* the home.
CompileCommandSwapsRustup(dir, l, e) ==
    [prog |-> l.cargo,
     args |-> <<"build", "-vv">>,
     penv |-> ("TEMP" :> l.temp)
              @@ ("SYSTEMROOT" :> UnwrapOrDefault(EnvVar(e, "SYSTEMROOT")))
              @@ ("PATH" :> l.path)
              @@ ("SSH_AUTH_SOCK" :> l.ssh_auth_sock)
              @@ ("RUSTUP_HOME" :> l.rustup_toolchain)
              @@ ("RUSTUP_TOOLCHAIN" :> l.rustup_home),
     cwd |-> dir.path]

\* The Command compile_build_crate builds (lines 100-114): `cargo build
\* -vv` in the staging directory, its environment cleared and then given
\* six variables, SYSTEMROOT read at this point.
CompileCommand(dir, l, e) ==
    [prog |-> l.cargo,
     args |-> <<"build", "-vv">>,
     penv |-> ("TEMP" :> l.temp)
              @@ ("SYSTEMROOT" :> UnwrapOrDefault(EnvVar(e, "SYSTEMROOT")))
              @@ ("PATH" :> l.path)
              @@ ("SSH_AUTH_SOCK" :> l.ssh_auth_sock)
              @@ ("RUSTUP_HOME" :> l.rustup_home)
              @@ ("RUSTUP_TOOLCHAIN" :> l.rustup_toolchain),
     cwd |-> dir.path]

\* A variant of BuildScriptCommand that runs the script where it was built.
BuildScriptCommandInStaging(dir, executable_name, working_dir, e) ==
    [prog |-> Push(Push(Push(dir.path, <<"target">>), <<"debug">>),
                   executable_name),
     args |-> <<>>,
     penv |-> InheritedEnv(e),
     cwd |-> dir.path]

\* The Command run_build_script builds (lines 127-137):
\* <staging>/target/debug/<executable_name>, in working_dir, with the
\* environment of this process.
BuildScriptCommand(dir, executable_name, working_dir, e) ==
    [prog |-> Push(Push(Push(dir.path, <<"target">>), <<"debug">>),
                   executable_name),
     args |-> <<>>,
     penv |-> InheritedEnv(e),
     cwd |-> working_dir]

\* The results of Command::output followed by the assert on the exit
\* status (lines 114-122, 137-148).
ProcessResults == {"spawn_failed", "nonzero", "success"}

\* A variant of StepSucceeds without the assert on the exit status.
IgnoresExitStatus(result) == result # "spawn_failed"

\* Lines 115-122 and 138-148: the step goes on only when the process was
\* spawned and its exit status is success.
StepSucceeds(result) == result = "success"

\* What a successful `cargo build` leaves in the staging directory: the
\* executable run_build_script looks for (lines 127-131).
CargoBuild(f, dir, executable_name) ==
    LET debug == Resolve(Push(Push(dir.path, <<"target">>), <<"debug">>))
        made == CreateDirAll(f, debug)
    IN WriteFile(made.fs, Append(debug, JoinSymbols(executable_name)), <<"ELF">>)

----------------------------------------------------------------------------
(* The log of a run: its filesystem calls, its processes, its panics *)

NoCommand == [prog |-> <<>>, args |-> <<>>, penv |-> <<>>, cwd |-> <<>>]

\* A filesystem call of `step` on path `at`, or a panic (op = "panic").
\* `secs` is the time the event read from the clock; only NewEvent reads it.
Event(step, op, at, ok) ==
    [step |-> step, op |-> op, at |-> at, ok |-> ok, cmd |-> NoCommand,
     result |-> "none", secs |-> -1]

\* The construction of a BuildDir with path `at`, at second `now`.
NewEvent(at, now) ==
    [step |-> "acquire", op |-> "new", at |-> at, ok |-> TRUE,
     cmd |-> NoCommand, result |-> "none", secs |-> now]

\* A process of `step`.
SpawnEvent(step, cmd, result) ==
    [step |-> step, op |-> "spawn", at |-> cmd.prog,
     ok |-> result = "success", cmd |-> cmd, result |-> result, secs |-> -1]

----------------------------------------------------------------------------
(* The steps of run_build_crate below the entry point *)

\* A variant of QualifyCargoTomlPaths that rewrites the text it has just
\* rewritten once more before writing it.
QualifiesTwice(f, cargo_toml_path, base_dir) ==
    LET at == Resolve(cargo_toml_path)
        read == ReadFile(f, at)
        once == Qualify(read.data, base_dir)
        text == Qualify(once.val, base_dir)
        written == WriteFile(f, at, text.val)
        r_ev == Event("rewrite", "read_to_string", cargo_toml_path, read.ok)
        w_ev == Event("rewrite", "write", cargo_toml_path, written.ok)
    IN IF ~read.ok THEN [ok |-> FALSE, fs |-> f, events |-> <<r_ev>>]
       ELSE IF ~text.ok THEN [ok |-> FALSE, fs |-> f, events |-> <<r_ev>>]
       ELSE [ok |-> written.ok, fs |-> written.fs, events |-> <<r_ev, w_ev>>]

\* qualify_cargo_toml_paths (lines 85-96): read the manifest, rewrite its
\* text, write it back to the same path.  ok = FALSE is a panic.
QualifyCargoTomlPaths(f, cargo_toml_path, base_dir) ==
    LET at == Resolve(cargo_toml_path)
        read == ReadFile(f, at)
        text == Qualify(read.data, base_dir)
        written == WriteFile(f, at, text.val)
        r_ev == Event("rewrite", "read_to_string", cargo_toml_path, read.ok)
        w_ev == Event("rewrite", "write", cargo_toml_path, written.ok)
    IN IF ~read.ok THEN [ok |-> FALSE, fs |-> f, events |-> <<r_ev>>]
       ELSE IF ~text.ok THEN [ok |-> FALSE, fs |-> f, events |-> <<r_ev>>]
       ELSE [ok |-> written.ok, fs |-> written.fs, events |-> <<r_ev, w_ev>>]

\* BuildDir::drop (lines 22-33): assert that the path is under the
\* temporary directory as read now, then remove the directory and all below
\* it.  ok = FALSE is a panic, of the assert (nothing is removed, no call
\* is made) or of the `expect` on a failed removal.
BuildDirDrop(f, dir, e) ==
    LET rm == RemoveDirAll(f, Resolve(dir.path))
    IN IF ~StartsWith(dir.path, TempDir(e))
       THEN [ok |-> FALSE, fs |-> f, events |-> <<>>]
       ELSE [ok |-> rm.ok, fs |-> rm.fs,
             events |-> <<Event("drop", "remove_dir_all", dir.path, rm.ok)>>]

\* The run goes on to `next`, having logged `events`.
GoesOn(r, next, events) ==
    /\ pc' = [pc EXCEPT ![r] = next]
    /\ log' = [log EXCEPT ![r] = @ \o events]
    /\ UNCHANGED outcome

\* An `expect` or `assert!` of `step` panics: the stack unwinds, which drops
\* build_dir (it is live from line 155 on).
Panics(r, step, events) ==
    /\ pc' = [pc EXCEPT ![r] = "drop"]
    /\ outcome' = [outcome EXCEPT ![r] = "panicking"]
    /\ log' = [log EXCEPT ![r] = @ \o events \o <<Event(step, "panic", <<>>, FALSE)>>]

\* Line 155.
Acquire(r) ==
    /\ pc[r] = "start"
    /\ build_dir' = [build_dir EXCEPT ![r] = BuildDirNew(env[r], clock)]
    /\ GoesOn(r, "name", <<NewEvent(BuildDirNew(env[r], clock).path, clock)>>)
    /\ UNCHANGED <<fs, fs0, clock, env, src, locals,
                   q_text, q_base, q_out, m_state>>

\* Lines 157-163.
GetExecutableName(r) ==
    /\ pc[r] = "name"
    /\ LET n == FileName(src[r])
       IN IF n.some
          THEN /\ locals' = [locals EXCEPT ![r].executable_name = n.val]
               /\ GoesOn(r, "env", <<>>)
          ELSE /\ Panics(r, "name", <<>>)
               /\ UNCHANGED locals
    /\ UNCHANGED <<fs, fs0, clock, env, src, build_dir,
                   q_text, q_base, q_out, m_state>>

\* Lines 165-173.
ReadEnv(r) ==
    /\ pc[r] = "env"
    /\ IF \A v \in RequiredVars : EnvVar(env[r], v).ok
       THEN /\ locals' = [locals EXCEPT
                            ![r] = ReadLocals(env[r], locals[r].executable_name)]
            /\ GoesOn(r, "mkdir", <<>>)
       ELSE /\ Panics(r, "env", <<>>)
            /\ UNCHANGED locals
    /\ UNCHANGED <<fs, fs0, clock, env, src, build_dir,
                   q_text, q_base, q_out, m_state>>

\* Line 183.
CreateBuildDir(r) ==
    /\ pc[r] = "mkdir"
    /\ LET made == CreateDirAll(fs, Resolve(build_dir[r].path))
           ev == Event("mkdir", "create_dir_all", build_dir[r].path, made.ok)
       IN /\ fs' = made.fs
          /\ IF made.ok THEN GoesOn(r, "mirror", <<ev>>)
             ELSE Panics(r, "mkdir", <<ev>>)
    /\ UNCHANGED <<fs0, clock, env, src, build_dir, locals,
                   q_text, q_base, q_out, m_state>>

\* Line 184.
CopyBuildCrate(r) ==
    /\ pc[r] = "mirror"
    /\ LET copied == CpR(fs, Resolve(src[r]), Resolve(build_dir[r].path))
           ev == Event("mirror", "cp_r", build_dir[r].path, copied.ok)
       IN /\ fs' = copied.fs
          /\ IF copied.ok THEN GoesOn(r, "rewrite", <<ev>>)
             ELSE Panics(r, "mirror", <<ev>>)
    /\ UNCHANGED <<fs0, clock, env, src, build_dir, locals,
                   q_text, q_base, q_out, m_state>>

\* A variant of QualifyPaths that rewrites the manifest of the build crate
\* where it is, in the source directory.
QualifyPathsInSource(r) ==
    /\ pc[r] = "rewrite"
    /\ LET done == QualifyCargoTomlPaths(fs, Push(src[r], <<"Cargo.toml">>),
                                         locals[r].base_dir)
       IN /\ fs' = done.fs
          /\ IF done.ok THEN GoesOn(r, "compile", done.events)
             ELSE Panics(r, "rewrite", done.events)
    /\ UNCHANGED <<fs0, clock, env, src, build_dir, locals,
                   q_text, q_base, q_out, m_state>>

\* Line 188.
QualifyPaths(r) ==
    /\ pc[r] = "rewrite"
    /\ LET done == QualifyCargoTomlPaths(fs, Push(build_dir[r].path, <<"Cargo.toml">>),
                                         locals[r].base_dir)
       IN /\ fs' = done.fs
          /\ IF done.ok THEN GoesOn(r, "compile", done.events)
             ELSE Panics(r, "rewrite", done.events)
    /\ UNCHANGED <<fs0, clock, env, src, build_dir, locals,
                   q_text, q_base, q_out, m_state>>

\* Line 190: compile_build_crate (lines 98-123).  The process cannot be
\* spawned in a working directory that does not exist; whether it can be
\* spawned otherwise, and how cargo exits, is cargo's and the host's.
CompileBuildCrate(r) ==
    /\ pc[r] = "compile"
    /\ \E result \in ProcessResults :
         LET cmd == CompileCommand(build_dir[r], locals[r], env[r])
             built == CargoBuild(fs, build_dir[r], locals[r].executable_name)
         IN /\ result # "spawn_failed" => IsDir(fs, Resolve(cmd.cwd))
            /\ result = "success" => built.ok
            /\ fs' = IF result = "success" THEN built.fs ELSE fs
            /\ IF StepSucceeds(result)
               THEN GoesOn(r, "execute", <<SpawnEvent("compile", cmd, result)>>)
               ELSE Panics(r, "compile", <<SpawnEvent("compile", cmd, result)>>)
    /\ UNCHANGED <<fs0, clock, env, src, build_dir, locals,
                   q_text, q_base, q_out, m_state>>

\* Line 194: run_build_script (lines 125-149).  The script is spawned only
\* if the executable and the working directory exist.  What the script
\* itself does is outside run_build_crate.
RunBuildScript(r) ==
    /\ pc[r] = "execute"
    /\ \E result \in ProcessResults :
         LET cmd == BuildScriptCommand(build_dir[r], locals[r].executable_name,
                                       src[r], env[r])
         IN /\ result # "spawn_failed" =>
                  IsFile(fs, Resolve(cmd.prog)) /\ IsDir(fs, Resolve(cmd.cwd))
            /\ IF StepSucceeds(result)
               THEN GoesOn(r, "drop", <<SpawnEvent("execute", cmd, result)>>)
               ELSE Panics(r, "execute", <<SpawnEvent("execute", cmd, result)>>)
    /\ UNCHANGED <<fs, fs0, clock, env, src, build_dir, locals,
                   q_text, q_base, q_out, m_state>>

\* The end of the scope of build_dir (line 195, or the unwinding of a
\* panic): BuildDir::drop runs.  The run has then returned; or the panic
\* that was unwinding has left run_build_crate ("unwound"), as does a panic
\* of drop itself at line 195; or drop panicked while a panic was unwinding,
\* which aborts the process ("aborted").
Drop(r) ==
    /\ pc[r] = "drop"
    /\ LET d == BuildDirDrop(fs, build_dir[r], env[r])
       IN /\ fs' = d.fs
          /\ log' = [log EXCEPT ![r] =
                        @ \o d.events \o
                        (IF d.ok THEN <<>> ELSE <<Event("drop", "panic", <<>>, FALSE)>>)]
          /\ outcome' = [outcome EXCEPT ![r] =
                            IF d.ok
                            THEN (IF @ = "running" THEN "returned" ELSE "unwound")
                            ELSE (IF @ = "running" THEN "unwound" ELSE "aborted")]
    /\ pc' = [pc EXCEPT ![r] = "done"]
    /\ UNCHANGED <<fs0, clock, env, src, build_dir, locals,
                   q_text, q_base, q_out, m_state>>

----------------------------------------------------------------------------
(* Initial states *)

EmptyFs == (<<>> :> DirNode)

ManifestText ==
    <<"dep = { ">> \o PathEqDq \o <<"..", Sep, "lib", "\"", " }">>

\* The build crate: its manifest and one source file; the same without the
\* manifest; the same with a file that cannot be read.
CrateTrees ==
    { (<<"Cargo.toml">> :> FileNode(ManifestText))
        @@ (<<"src">> :> DirNode)
        @@ (<<"src", "main.rs">> :> FileNode(<<"fn main">>)),
      (<<"src">> :> DirNode)
        @@ (<<"src", "main.rs">> :> FileNode(<<"fn main">>)),
      (<<"Cargo.toml">> :> FileNode(ManifestText))
        @@ (<<"src">> :> DirNode)
        @@ (<<"src", "main.rs">> :> UnreadableFile(<<"fn main">>)) }

CrateDir == <<"proj", "build-script">>

\* A build crate the package keeps elsewhere.
OtherCrateDir == <<"proj", "tools", "gen">>

\* /tmp, the package at /proj and the build crate at /proj/build-script and
\* at /proj/tools/gen.
CrateFs(t) ==
    EmptyFs @@ (<<"tmp">> :> DirNode) @@ (<<"proj">> :> DirNode)
    @@ (CrateDir :> DirNode)
    @@ [p \in { CrateDir \o q : q \in DOMAIN t } |-> t[SubSeq(p, 3, Len(p))]]
    @@ (<<"proj", "tools">> :> DirNode) @@ (OtherCrateDir :> DirNode)
    @@ [p \in { OtherCrateDir \o q : q \in DOMAIN t } |-> t[SubSeq(p, 4, Len(p))]]

\* What an earlier run of the same second may have left behind.
StaleStaging ==
    (<<"tmp", "build-script-0">> :> DirNode)
    @@ (<<"tmp", "build-script-0", "old">> :> FileNode(<<"stale">>))

InitialFs ==
    { CrateFs(t) : t \in CrateTrees }
    \cup { StaleStaging @@ CrateFs(t) : t \in CrateTrees }

\* The arguments of run_build_crate: the crate by a relative and by an
\* absolute path, the crate kept elsewhere, a path without a final name, a
\* directory that does not exist, and a name that is not valid Unicode.
SrcArgs ==
    { <<"build-script">>,
      <<Sep, "proj", Sep, "build-script">>,
      <<"tools", Sep, "gen">>,
      <<"..">>,
      <<Sep, "proj", Sep, "missing">>,
      <<Sep, "proj", Sep, NonUtf8>> }

NoRuns ==
    /\ clock = 0
    /\ env = [r \in Runs |-> UsualEnv]
    /\ src = [r \in Runs |-> <<>>]
    /\ pc = [r \in Runs |-> "off"]
    /\ build_dir = [r \in Runs |-> NoBuildDir]
    /\ locals = [r \in Runs |-> NoLocals]
    /\ outcome = [r \in Runs |-> "running"]
    /\ log = [r \in Runs |-> <<>>]

InitText ==
    /\ q_text \in Texts
    /\ q_base \in BaseDirs
    /\ q_out = <<>>
    /\ m_state = "idle"
    /\ fs = EmptyFs
    /\ fs0 = fs
    /\ NoRuns

InitMirror ==
    /\ fs \in { MirrorFs(s, d) : s \in Forests(MaxSrcNodes, SrcFiles),
                                 d \in Forests(MaxDstNodes, DstFiles) }
    /\ fs0 = fs
    /\ m_state = "ready"
    /\ QIdle
    /\ NoRuns

\* One call of run_build_crate, in a process of its own.
Init ==
    /\ clock = 0
    /\ \E e \in Envs : env = [r \in Runs |-> IF r = "r1" THEN e ELSE UsualEnv]
    /\ \E a \in SrcArgs : src = [r \in Runs |-> IF r = "r1" THEN a ELSE <<>>]
    /\ pc = [r \in Runs |-> IF r = "r1" THEN "start" ELSE "off"]
    /\ build_dir = [r \in Runs |-> NoBuildDir]
    /\ locals = [r \in Runs |-> NoLocals]
    /\ outcome = [r \in Runs |-> "running"]
    /\ log = [r \in Runs |-> <<>>]
    /\ fs \in InitialFs
    /\ fs0 = fs
    /\ QIdle
    /\ m_state = "idle"

----------------------------------------------------------------------------
(* Two calls of run_build_crate at once, each in a process of its own (two *)
(* build scripts of one cargo build), under one clock and on one           *)
(* filesystem.                                                             *)

\* the last second the clock reaches
MaxSecond == 1

\* A second passes (SystemTime::now, line 11, reads the clock).
Tick ==
    /\ clock < MaxSecond
    /\ clock' = clock + 1
    /\ UNCHANGED <<fs, fs0, env, src, pc, build_dir, locals, outcome, log,
                   q_text, q_base, q_out, m_state>>

\* The environment of the second process: the usual one, as the first has
\* it, or the usual one with a temporary directory of its own.
ConcEnvs == { UsualEnv, [UsualEnv EXCEPT !["TMPDIR"] = OtherVal("TMPDIR")] }

\* The build crate the second process stages: the one the first stages, or
\* the other one.
ConcSrcArgs == { <<"build-script">>, <<"tools", Sep, "gen">> }

InitConc ==
    /\ clock = 0
    /\ \E e \in ConcEnvs : env = [r \in Runs |-> IF r = "r1" THEN UsualEnv ELSE e]
    /\ \E a \in ConcSrcArgs :
           src = [r \in Runs |-> IF r = "r1" THEN <<"build-script">> ELSE a]
    /\ pc = [r \in Runs |-> "start"]
    /\ build_dir = [r \in Runs |-> NoBuildDir]
    /\ locals = [r \in Runs |-> NoLocals]
    /\ outcome = [r \in Runs |-> "running"]
    /\ log = [r \in Runs |-> <<>>]
    /\ fs = CrateFs(CHOOSE t \in CrateTrees :
                        <<"Cargo.toml">> \in DOMAIN t
                        /\ \A p \in DOMAIN t : t[p].readable)
    /\ fs0 = fs
    /\ QIdle
    /\ m_state = "idle"

----------------------------------------------------------------------------
(* Specifications *)

NextText == Apply \/ ApplyAgain

NextMirror == Mirror

Next ==
    \E r \in Runs :
        \/ Acquire(r)
        \/ GetExecutableName(r)
        \/ ReadEnv(r)
        \/ CreateBuildDir(r)
        \/ CopyBuildCrate(r)
        \/ QualifyPaths(r)
        \/ CompileBuildCrate(r)
        \/ RunBuildScript(r)
        \/ Drop(r)

NextConc == Next \/ Tick

SpecText == InitText /\ [][NextText]_vars

SpecMirror == InitMirror /\ [][NextMirror]_vars

Spec == Init /\ [][Next]_vars

SpecConc == InitConc /\ [][NextConc]_vars

----------------------------------------------------------------------------
(* Properties of qualify_cargo_toml_paths_in_text (SpecText) *)

\* t with `ins` put in right after every position where one of the four
\* spellings ends, and every symbol of t kept in place and in order.
InsertedAfterQuotes(t, ins) ==
    LET F[i \in 0..Len(t)] ==
            IF i = 0 THEN <<>>
            ELSE F[i - 1] \o <<t[i]>> \o (IF EndsSpellingAt(t, i) THEN ins ELSE <<>>)
    IN F[Len(t)]

\* The number of occurrences of the four spellings in t.
Occurrences(t) == Cardinality({ i \in 1..Len(t) : EndsSpellingAt(t, i) })

\* The base directory holds nothing escape_default rewrites.
IsPlain(base) ==
    \A i \in 1..Len(base) :
        base[i] \notin {"\t", "\"", "'", "\\", NonAscii, NonUtf8}

\* C3 as stated: for every manifest text and base directory, the result is
\* the input with <base_dir>/ inserted right after the opening quote of
\* every occurrence of the four spellings, everything else kept.
C3_AsStated ==
    (Len(q_out) >= 1 /\ q_out[1].ok) =>
        q_out[1].val = InsertedAfterQuotes(q_text, q_base \o <<"/">>)

\* C3 (amended): for every manifest text and every base directory that is
\* valid Unicode, the result is the input with escape_default(base_dir)
\* followed by "/" inserted right after the opening quote of every
\* occurrence of the four spellings, every other character kept in place
\* and in order; that is <base_dir>/ itself when base_dir holds no quote,
\* backslash, control or non-ASCII character.  A base directory that is not
\* valid Unicode makes the function panic.
C3_InsertsEscapedBase ==
    Len(q_out) >= 1 =>
        IF ToStr(q_base).some
        THEN /\ q_out[1].ok
             /\ q_out[1].val =
                    InsertedAfterQuotes(q_text, EscapeDefault(q_base) \o <<"/">>)
             /\ IsPlain(q_base) =>
                    q_out[1].val = InsertedAfterQuotes(q_text, q_base \o <<"/">>)
        ELSE ~q_out[1].ok

\* A text with two occurrences was rewritten with a base directory that
\* escape_default changes.
C3_Witness ==
    /\ Len(q_out) >= 1
    /\ q_out[1].ok
    /\ Occurrences(q_text) >= 2
    /\ EscapeDefault(q_base) # q_base

\* C10: the rewrite is not idempotent.  For every text with at least one
\* occurrence of the four spellings, the second application (same base
\* directory) puts the inserted base directory prefix after each matched
\* opening quote once more, so its result holds the prefix twice there and
\* differs from the result of the first.  The prefix is what one
\* application inserts: escape_default(base_dir) followed by "/".
C10_NotIdempotent ==
    (Len(q_out) = 2 /\ Occurrences(q_text) >= 1) =>
        LET ins == EscapeDefault(q_base) \o <<"/">>
        IN /\ q_out[2].ok
           /\ q_out[2].val = InsertedAfterQuotes(q_text, ins \o ins)
           /\ q_out[2].val # q_out[1].val
           /\ Occurrences(q_out[1].val) = Occurrences(q_text)

\* The rewrite was applied twice to a text with an occurrence.
C10_Witness ==
    /\ Len(q_out) = 2
    /\ Occurrences(q_text) >= 1
    /\ q_out[2].ok

\* The spellings that end at position i of t.
SpellingsEndingAt(t, i) ==
    { k \in 1..Len(Spellings) :
        /\ Len(Spellings[k]) <= i
        /\ SubSeq(t, i - Len(Spellings[k]) + 1, i) = Spellings[k] }

\* The text after the first n replacement passes (lines 78-81), each
\* putting `ins` after its spelling.
PassesDone(t, ins, n) ==
    LET P[k \in 0..n] ==
            IF k = 0 THEN t
            ELSE Replace(P[k - 1], Spellings[k], Spellings[k] \o ins)
    IN P[n]

\* t with `ins` put in right after every position where one of the first n
\* spellings ends, every symbol of t kept.
InsertedAfterFirst(t, ins, n) ==
    LET F[i \in 0..Len(t)] ==
            IF i = 0 THEN <<>>
            ELSE F[i - 1] \o <<t[i]>>
                 \o (IF \E k \in SpellingsEndingAt(t, i) : k <= n THEN ins ELSE <<>>)
    IN F[Len(t)]

\* C17: one application makes exactly as many insertions as the input has
\* occurrences of the four spellings, for every base directory that has a
\* textual form, also one whose text holds a spelling or a quote.  At most
\* one spelling ends at each opening quote, and each pass inserts at the
\* occurrences of its own spelling in the input and nowhere else: no pass
\* matches inside, or across the edge of, what an earlier pass inserted.
C17_OneInsertionPerOccurrence ==
    (Len(q_out) = 1 /\ ToStr(q_base).some) =>
        LET ins == EscapeDefault(q_base) \o <<"/">>
        IN /\ q_out[1].ok
           /\ Len(q_out[1].val) = Len(q_text) + Occurrences(q_text) * Len(ins)
           /\ \A i \in 1..Len(q_text) : Cardinality(SpellingsEndingAt(q_text, i)) <= 1
           /\ \A n \in 0..Len(Spellings) :
                  PassesDone(q_text, ins, n) = InsertedAfterFirst(q_text, ins, n)
           /\ q_out[1].val = PassesDone(q_text, ins, Len(Spellings))

\* A text with occurrences of two different spellings was rewritten with a
\* base directory whose text holds a whole spelling.
C17_Witness ==
    /\ Len(q_out) >= 1
    /\ q_out[1].ok
    /\ \E i \in 1..Len(q_base) : EndsSpellingAt(q_base, i)
    /\ \E i, j \in 1..Len(q_text) :
           /\ SpellingsEndingAt(q_text, i) # {}
           /\ SpellingsEndingAt(q_text, j) # {}
           /\ SpellingsEndingAt(q_text, i) # SpellingsEndingAt(q_text, j)

----------------------------------------------------------------------------
(* Properties of cp_r (SpecMirror) *)

\* The entries below the source directory, as they were before cp_r.
SourceEntries == { p \in DOMAIN fs0 : IsPrefix(MirrorIn, p) /\ p # MirrorIn }

\* The destination path of a source entry.
Mirrored(p) == MirrorOut \o SubSeq(p, Len(MirrorIn) + 1, Len(p))

\* C5: after cp_r returns, every directory and file of the source, at any
\* depth, exists at the same relative path under the destination, and every
\* file there has exactly the content of its source file.
C5_StructuralCopy ==
    m_state = "returned" =>
        \A p \in SourceEntries :
            /\ Mirrored(p) \in DOMAIN fs
            /\ fs[Mirrored(p)].kind = fs0[p].kind
            /\ fs0[p].kind = "file" => fs[Mirrored(p)].data = fs0[p].data

\* cp_r returned for a source with a file two directories down.
C5_Witness ==
    /\ m_state = "returned"
    /\ \E p \in SourceEntries :
           fs0[p].kind = "file" /\ Len(p) = Len(MirrorIn) + 3

\* C6: when the destination already held an entry (a file, or a directory
\* with any content) at a path a source file occupies, then after cp_r
\* returns that path is a regular file with exactly the source file's
\* content, and nothing of the earlier entry is left below it.
C6_ConflictReplaced ==
    m_state = "returned" =>
        \A p \in SourceEntries :
            (fs0[p].kind = "file" /\ Mirrored(p) \in DOMAIN fs0) =>
                /\ IsFile(fs, Mirrored(p))
                /\ fs[Mirrored(p)].data = fs0[p].data
                /\ \A x \in DOMAIN fs : IsPrefix(Mirrored(p), x) => x = Mirrored(p)

\* cp_r returned where a source file met a directory that had an entry.
C6_Witness ==
    /\ m_state = "returned"
    /\ \E p \in SourceEntries :
           /\ fs0[p].kind = "file"
           /\ IsDir(fs0, Mirrored(p))
           /\ ChildNames(fs0, Mirrored(p)) # {}

----------------------------------------------------------------------------
(* Properties of run_build_crate (Spec) *)

\* The places in the log of run r where `op` was called.
Calls(r, op) == { i \in 1..Len(log[r]) : log[r][i].op = op }

\* The processes of run r, in order.
Spawns(r) == SelectSeq(log[r], LAMBDA ev : ev.op = "spawn")

\* The step of run r that panicked first, if one did.
FailedStep(r) ==
    IF Calls(r, "panic") = {} THEN "none"
    ELSE log[r][CHOOSE i \in Calls(r, "panic") :
                    \A j \in Calls(r, "panic") : i <= j].step

\* The calls that act on the filesystem.
FsOps == {"create_dir_all", "cp_r", "read_to_string", "write", "remove_dir_all"}

\* The staging directory of run r, resolved.
Staging(r) == Resolve(build_dir[r].path)

\* C1 as stated: every run, failing or not, ends with its staging directory
\* recursively deleted exactly once, and the directory does not exist once
\* the run has returned or aborted.
C1_AsStated ==
    \A r \in Runs :
        pc[r] = "done" =>
            /\ Cardinality({ i \in Calls(r, "remove_dir_all") : log[r][i].ok }) = 1
            /\ ~Exists(fs, Staging(r))

AllowListed ==
    {"TEMP", "SYSTEMROOT", "PATH", "SSH_AUTH_SOCK", "RUSTUP_HOME", "RUSTUP_TOOLCHAIN"}

\* The environments that agree with e on the allow-listed variables and on
\* CARGO, and in which no required variable is missing.
AgreeingEnvs(e) ==
    { e2 \in { [v \in EnvVars |-> IF v \in DOMAIN ch THEN ch[v] ELSE e[v]] :
                 ch \in { f \in [EnvVars \ (AllowListed \cup {"CARGO"}) ->
                                    UNION { EnvValues(v) : v \in EnvVars }] :
                            \A v \in DOMAIN f : f[v] \in EnvValues(v) } } :
        \A v \in RequiredVars : EnvVar(e2, v).ok }

\* C4: the environment of the compile process depends only on the
\* allow-listed variables.  It holds exactly those six variables, and a
\* caller environment that agrees with this one on them (and on CARGO)
\* would hand the compile process the identical environment, whatever its
\* other variables are.
C4_CompileEnvIsolated ==
    \A r \in Runs :
        \A i \in Calls(r, "spawn") :
            log[r][i].step = "compile" =>
                /\ DOMAIN log[r][i].cmd.penv = AllowListed
                /\ \A e2 \in AgreeingEnvs(env[r]) :
                       CompileCommand(build_dir[r],
                                      ReadLocals(e2, locals[r].executable_name),
                                      e2).penv
                       = log[r][i].cmd.penv

\* cargo was spawned by a caller whose environment holds a RUSTFLAGS of its
\* own and a manifest directory other than the usual one.
C4_Witness ==
    \E r \in Runs :
        /\ \E i \in Calls(r, "spawn") : log[r][i].step = "compile"
        /\ env[r]["CARGO_MANIFEST_DIR"] # UsualEnv["CARGO_MANIFEST_DIR"]
        /\ env[r]["RUSTFLAGS"].st = "str"

\* C7: a run that reaches both subprocess steps makes exactly two process
\* invocations: the compile one with the staging directory as its working
\* directory, then the execute one with the build_crate_src it was given as
\* its working directory and with the whole environment of this process.
C7_TwoInvocations ==
    \A r \in Runs :
        (\E i \in Calls(r, "spawn") : log[r][i].step = "execute") =>
            /\ Len(Spawns(r)) = 2
            /\ Spawns(r)[1].step = "compile"
            /\ Spawns(r)[1].cmd.cwd = build_dir[r].path
            /\ Spawns(r)[2].step = "execute"
            /\ Spawns(r)[2].cmd.cwd = src[r]
            /\ Resolve(Spawns(r)[2].cmd.cwd) \in {CrateDir, OtherCrateDir}
            /\ Spawns(r)[2].cmd.penv = InheritedEnv(env[r])

\* A run returned after both processes succeeded.
C7_Witness ==
    \E r \in Runs :
        /\ outcome[r] = "returned"
        /\ Len(Spawns(r)) = 2
        /\ Spawns(r)[2].result = "success"

\* C8 as stated: when a required variable is absent the run makes no call
\* on the filesystem at all, not even a deletion during cleanup.
C8_AsStated ==
    \A r \in Runs :
        (FailedStep(r) = "env" /\ \E v \in RequiredVars : env[r][v].st = "unset") =>
            \A i \in 1..Len(log[r]) : log[r][i].op \notin FsOps

\* C9: a failing step aborts the run, with no retry and no later step.
\* After the first panic the log holds only the removal of the staging
\* directory (and a panic of that removal).  No process follows a process
\* that was not spawned or exited non-zero, none is spawned after a failed
\* mirror or rewrite, no step is made twice, and a run in which a step
\* failed never returns.
C9_FailureAborts ==
    \A r \in Runs :
        /\ \A i \in Calls(r, "panic") : \A j \in (i + 1)..Len(log[r]) :
               /\ log[r][j].step = "drop"
               /\ log[r][j].op \in {"remove_dir_all", "panic"}
               /\ log[r][j].op = "remove_dir_all" => log[r][j].at = build_dir[r].path
        /\ \A i \in Calls(r, "spawn") :
               log[r][i].result # "success" =>
                   \A j \in Calls(r, "spawn") : j <= i
        /\ \A i \in 1..Len(log[r]) :
               (log[r][i].op \in FsOps /\ ~log[r][i].ok /\ log[r][i].step # "drop") =>
                   \A j \in Calls(r, "spawn") : j < i
        /\ \A i, j \in 1..Len(log[r]) :
               (log[r][i].op = log[r][j].op /\ log[r][i].step = log[r][j].step) => i = j
        /\ (pc[r] = "done" /\ FailedStep(r) # "none") =>
               outcome[r] \in {"unwound", "aborted"}
        /\ FailedStep(r) # "none" => pc[r] \in {"drop", "done"}

\* A run ended after its compile process exited non-zero.
C9_Witness ==
    \E r \in Runs :
        /\ pc[r] = "done"
        /\ FailedStep(r) = "compile"
        /\ Spawns(r)[1].result = "nonzero"

\* The place of a step in the pipeline: acquire, the executable name and
\* the environment, then Stage (mkdir, mirror), Rewrite, Compile, Execute,
\* Release (drop).
StepOrder ==
    <<"acquire", "name", "env", "mkdir", "mirror", "rewrite", "compile",
      "execute", "drop">>

Rank(step) == CHOOSE k \in 1..Len(StepOrder) : StepOrder[k] = step

\* The first place in the log of run r where step `step` made call `op`
\* (0 if it made none).
FirstCall(r, step, op) ==
    LET at == { i \in Calls(r, op) : log[r][i].step = step }
    IN IF at = {} THEN 0 ELSE CHOOSE i \in at : \A j \in at : i <= j

\* The manifest of the build crate as it was before the run.
SourceManifest(r) == fs0[Append(Resolve(src[r]), "Cargo.toml")].data

\* C12: the steps of a run occur in the order Stage (create the directory,
\* mirror), Rewrite, Compile, Execute, Release, each at most once and never
\* out of order.  A run that gets as far as the rewrite reads the staged
\* Cargo.toml exactly once, after cp_r has returned, and writes it at most
\* once; when the compile process is spawned the manifest has been written
\* exactly once, before it, and the staged Cargo.toml then holds the source
\* manifest rewritten once.
C12_FixedOrder ==
    \A r \in Runs :
        /\ \A i, j \in 1..Len(log[r]) :
               i < j => /\ Rank(log[r][i].step) <= Rank(log[r][j].step)
                        /\ ~(log[r][i].step = log[r][j].step
                             /\ log[r][i].op = log[r][j].op)
        /\ \A i \in 1..Len(log[r]) :
               Rank(log[r][i].step) <= Rank(IF pc[r] = "done" THEN "drop" ELSE pc[r])
        /\ \A i \in Calls(r, "read_to_string") \cup Calls(r, "write") :
               /\ log[r][i].step = "rewrite"
               /\ log[r][i].at = Push(build_dir[r].path, <<"Cargo.toml">>)
               /\ FirstCall(r, "mirror", "cp_r") \in 1..(i - 1)
               /\ log[r][FirstCall(r, "mirror", "cp_r")].ok
        /\ (pc[r] \in {"compile", "execute"} \/ FirstCall(r, "compile", "spawn") # 0) =>
               /\ Cardinality(Calls(r, "read_to_string")) = 1
               /\ Cardinality(Calls(r, "write")) = 1
               /\ \A i \in Calls(r, "write") :
                      log[r][i].ok /\ \A j \in Calls(r, "spawn") : i < j
        /\ pc[r] = "compile" =>
               /\ IsFile(fs, Append(Staging(r), "Cargo.toml"))
               /\ fs[Append(Staging(r), "Cargo.toml")].data
                      = Qualify(SourceManifest(r), locals[r].base_dir).val

\* A run went through every step and returned.
C12_Witness ==
    \E r \in Runs :
        /\ outcome[r] = "returned"
        /\ FirstCall(r, "mkdir", "create_dir_all") # 0
        /\ FirstCall(r, "rewrite", "write") # 0
        /\ FirstCall(r, "execute", "spawn") # 0
        /\ FirstCall(r, "drop", "remove_dir_all") # 0

\* The place of the quote that closes the string opened at place i of t.
ClosingQuote(t, i) ==
    CHOOSE j \in (i + 1)..Len(t) :
        /\ t[j] = t[i] /\ t[j - 1] # "\\"
        /\ \A k \in (i + 1)..(j - 1) : ~(t[k] = t[i] /\ t[k - 1] # "\\")

RECURSIVE TomlUnescape(_)
\* The value of a TOML basic string: a backslash escapes the next character.
TomlUnescape(s) ==
    IF s = <<>> THEN <<>>
    ELSE IF Head(s) = "\\" /\ Len(s) >= 2
         THEN <<s[2]>> \o TomlUnescape(SubSeq(s, 3, Len(s)))
         ELSE <<Head(s)>> \o TomlUnescape(Tail(s))

\* The directory the first dependency path of manifest text t names, for a
\* manifest that lies in directory `dir`: cargo takes a relative path
\* relative to the directory of the manifest.
DepTarget(t, dir) ==
    LET i == CHOOSE k \in 1..Len(t) :
                 EndsSpellingAt(t, k) /\ \A j \in 1..(k - 1) : ~EndsSpellingAt(t, j)
        raw == SubSeq(t, i + 1, ClosingQuote(t, i) - 1)
        c == Components(IF t[i] = "\"" THEN TomlUnescape(raw) ELSE raw)
    IN Normalize(IF c.abs THEN c.names ELSE dir \o c.names, <<>>)

\* C13 as stated: the base directory of the rewrite is the build-crate
\* source directory given to run_build_crate, so that for every source
\* directory and every manifest directory of the caller a rewritten
\* relative path names, from the staged manifest, the directory it named
\* from the source manifest.
C13_AsStated ==
    \A r \in Runs :
        pc[r] = "compile" =>
            /\ Resolve(locals[r].base_dir) = Resolve(src[r])
            /\ DepTarget(fs[Append(Staging(r), "Cargo.toml")].data, Staging(r))
                   = DepTarget(SourceManifest(r), Resolve(src[r]))

\* The compile processes of run r.
CompileSpawns(r) == { i \in Calls(r, "spawn") : log[r][i].step = "compile" }

\* C15 as stated: the environment of the compile invocation holds every
\* variable of the set the spec lists, the toolchain launcher path (CARGO)
\* among them, each with the value read for it.
C15_AsStated ==
    \A r \in Runs : \A i \in CompileSpawns(r) :
        \A v \in AllowListed \cup {"CARGO"} :
            /\ v \in DOMAIN log[r][i].cmd.penv
            /\ log[r][i].cmd.penv[v] = UnwrapOrDefault(EnvVar(env[r], v))

\* C15 (amended): the environment of the compile invocation holds TEMP,
\* SYSTEMROOT, PATH, SSH_AUTH_SOCK, RUSTUP_HOME and RUSTUP_TOOLCHAIN, each
\* with the value read for it (the empty string when the variable is unset
\* or not valid Unicode).  The toolchain launcher path is not a variable of
\* that environment: it is the program the invocation runs.
C15_CompileEnvValues ==
    \A r \in Runs : \A i \in CompileSpawns(r) :
        /\ \A v \in AllowListed :
               /\ v \in DOMAIN log[r][i].cmd.penv
               /\ log[r][i].cmd.penv[v] = UnwrapOrDefault(EnvVar(env[r], v))
        /\ "CARGO" \notin DOMAIN log[r][i].cmd.penv
        /\ log[r][i].cmd.prog = EnvVar(env[r], "CARGO").val
        /\ log[r][i].cmd.args = <<"build", "-vv">>

\* cargo was spawned by a caller whose SYSTEMROOT is set.
C15_Witness ==
    \E r \in Runs :
        /\ CompileSpawns(r) # {}
        /\ env[r]["SYSTEMROOT"].st = "str"

\* The variables read with unwrap_or_default.
OptionalVars ==
    {"TEMP", "SSH_AUTH_SOCK", "RUSTUP_HOME", "RUSTUP_TOOLCHAIN", "SYSTEMROOT"}

\* Run r has passed or failed the reads of the environment.
ReadTheEnv(r) ==
    pc[r] \notin {"off", "start", "name", "env"} /\ FailedStep(r) # "name"

\* C16 as stated: a run aborts on an environment error if and only if one
\* of CARGO, PATH and CARGO_MANIFEST_DIR is absent.
C16_AsStated ==
    \A r \in Runs :
        ReadTheEnv(r) =>
            (FailedStep(r) = "env"
               <=> \E v \in {"CARGO", "PATH", "CARGO_MANIFEST_DIR"} :
                       env[r][v].st = "unset")

\* C16 (amended): a run aborts on an environment error if and only if one
\* of CARGO, PATH and CARGO_MANIFEST_DIR is absent or holds a value that is
\* not valid Unicode.  An optional variable (TEMP, SSH_AUTH_SOCK,
\* RUSTUP_HOME, RUSTUP_TOOLCHAIN, SYSTEMROOT) that is absent, or not valid
\* Unicode, never aborts the run, and is passed to the compile invocation as
\* the empty string.
C16_EnvErrors ==
    \A r \in Runs :
        /\ ReadTheEnv(r) =>
               (FailedStep(r) = "env"
                  <=> \E v \in {"CARGO", "PATH", "CARGO_MANIFEST_DIR"} :
                          env[r][v].st # "str")
        /\ \A i \in CompileSpawns(r) : \A v \in OptionalVars :
               env[r][v].st # "str" => log[r][i].cmd.penv[v] = <<>>

\* cargo was spawned for a caller without SSH_AUTH_SOCK.
C16_Witness ==
    \E r \in Runs :
        /\ CompileSpawns(r) # {}
        /\ env[r]["SSH_AUTH_SOCK"].st = "unset"

\* What the filesystem holds at and below path d.
TreeAt(f, d) == [p \in { x \in DOMAIN f : IsPrefix(d, x) } |-> f[p]]

\* The build-crate source directory of run r and the system temporary
\* directory are apart: neither lies in the other.
SourceApart(r) ==
    /\ ~IsPrefix(Resolve(src[r]), Resolve(TempDir(env[r])))
    /\ ~IsPrefix(Resolve(TempDir(env[r])), Resolve(src[r]))

----------------------------------------------------------------------------
(* Properties of two calls of run_build_crate at once (SpecConc) *)

\* Run r has created its staging directory (line 183) and has not released
\* it yet.
Holds(r) == pc[r] \in {"mirror", "rewrite", "compile", "execute", "drop"}

\* C11 as stated: a staging directory is owned by the run that acquired it.
\* While a run holds its staging directory, no step of another run creates,
\* changes or deletes anything at or below it.
C11_AsStated ==
    [][\A r \in Runs : \A o \in Runs \ {r} :
          (Holds(r) /\ pc'[o] # pc[o]) =>
              TreeAt(fs', Staging(r)) = TreeAt(fs, Staging(r))]_vars

\* The runs that have constructed their BuildDir; the construction is the
\* first event of the log of a run.
Acquired == { r \in Runs : log[r] # <<>> /\ log[r][1].op = "new" }

\* C14: an invocation is given the staging path
\* <system temp root>/build-script-<unix-seconds> of the second of its
\* acquire.  Two invocations that acquire within the same second (under the
\* same system temporary directory) are given the identical path; two that
\* acquire in different seconds are given different paths, which name
\* different directories.
C14_SameSecondSamePath ==
    \A r \in Acquired : \A o \in Acquired :
        /\ build_dir[r].path = log[r][1].at
        /\ build_dir[r].path =
               Push(TempDir(env[r]), <<"build-script-" \o ToString(log[r][1].secs)>>)
        /\ (log[r][1].secs = log[o][1].secs /\ TempDir(env[r]) = TempDir(env[o])) =>
               build_dir[r].path = build_dir[o].path
        /\ log[r][1].secs # log[o][1].secs =>
               /\ build_dir[r].path # build_dir[o].path
               /\ Staging(r) # Staging(o)

\* Two runs that acquired in the same second hold the same staging
\* directory at once, the first having mirrored its crate into it.
C14_Witness ==
    \E r \in Runs : \E o \in Runs \ {r} :
        /\ Holds(r) /\ Holds(o)
        /\ log[r][1].secs = log[o][1].secs
        /\ Staging(r) = Staging(o)
        /\ Calls(r, "cp_r") # {}
        /\ IsDir(fs, Staging(r))

=============================================================================
